---- MODULE Spec2Model ----
(***************************************************************************)
(* GovDash: the query interpretation and API-dispatch layer of the two     *)
(* Streamlit pages, "Air Sewa" and "Consumption of Petroleum Products".    *)
(*                                                                         *)
(* Text is modelled as TLA+ strings, read character by character with      *)
(* SubSeq; substring tests, str.lower/strip/title and the regular          *)
(* expressions of the extractors are computed on the characters.           *)
(***************************************************************************)
EXTENDS Integers, Sequences, FiniteSets, TLC

VARIABLES
    page,            \* which page script is running: "airsewa" or "petroleum"
    API_INFO,        \* the page's module-level dataset registry
    secrets,         \* st.secrets: secret name -> value, absent names not in DOMAIN
    pc,              \* position in main() / call_api()
    caller,          \* who called call_api: "main", or "direct" (any other caller)
    user_query,      \* the text of the query box
    api_identifier,  \* classify_query's result, or None
    filters,         \* the FilterSet handed to call_api
    format_type,     \* call_api's format_type argument
    params,          \* the request parameters call_api built
    http_log,        \* the HTTP GETs issued for the current query, in order
    response,        \* what requests.get returned, or NoResponse
    result,          \* what call_api returned (a dict), or NoResult
    raised,          \* the exception that left call_api uncaught, or None
    shown,           \* the widgets the page rendered for the current query, in order
    runs             \* how many times the page script has been run again

vars == <<page, API_INFO, secrets, pc, caller, user_query, api_identifier,
          filters, format_type, params, http_log, response, result, raised, shown,
          runs>>

(***************************************************************************)
(* Bounds of the model.                                                    *)
(***************************************************************************)
\* Most fragments concatenated into one query text of the extractor checks.
MaxFrags == 2
\* Most data rows / JSON records in one HTTP response body.
MaxRows == 2
\* Most reruns of the page script (queries after the first) in one behaviour.
MaxRuns == 1

(***************************************************************************)
(* Characters and the str methods the pages use.                           *)
(***************************************************************************)
None == "<None>"

UpperLetters == "ABCDEFGHIJKLMNOPQRSTUVWXYZ"
LowerLetters == "abcdefghijklmnopqrstuvwxyz"
Digits == "0123456789"

CharSet(s) == { SubSeq(s, i, i) : i \in 1..Len(s) }

UPPER == CharSet(UpperLetters)
LOWER == CharSet(LowerLetters)
LETTER == UPPER \cup LOWER
DIGIT == CharSet(Digits)
\* \s ; the query box is a single-line text input
WS == {" "}
\* Stand-ins for the Devanagari letters of the Hindi vocabulary (uncased letters)
Devanagari == CharSet("#$%^*+=~|")
\* \w
WORD == LETTER \cup Devanagari \cup DIGIT \cup {"_"}
\* every character that occurs in a query of the model
Alphabet == WORD \cup WS \cup CharSet(":-?.@/&,")
\* . (no newline occurs in a single-line input)
ANY == Alphabet
\* \S
NONWS == Alphabet \ WS

CharAt(s, i) == SubSeq(s, i, i)

IndexIn(c, s) == CHOOSE i \in 1..Len(s) : SubSeq(s, i, i) = c

LowerChar(c) == IF c \in UPPER THEN CharAt(LowerLetters, IndexIn(c, UpperLetters)) ELSE c
UpperChar(c) == IF c \in LOWER THEN CharAt(UpperLetters, IndexIn(c, LowerLetters)) ELSE c

\* the string whose i-th character is Ch(i), for i in from..to
RECURSIVE Build(_, _, _)
Build(Ch(_), from, to) ==
    IF from > to THEN ""
    ELSE IF from = to THEN Ch(from)
    ELSE LET mid == (from + to) \div 2 IN Build(Ch, from, mid) \o Build(Ch, mid + 1, to)

lower(s) == LET Ch(i) == LowerChar(CharAt(s, i)) IN Build(Ch, 1, Len(s))

upper(s) == LET Ch(i) == UpperChar(CharAt(s, i)) IN Build(Ch, 1, Len(s))

\* str.title(): a letter is upper-cased when the character before it is not a
\* letter, lower-cased otherwise.
title(s) ==
    LET Ch(i) == IF CharAt(s, i) \in LETTER
                    THEN IF i > 1 /\ CharAt(s, i - 1) \in LETTER
                            THEN LowerChar(CharAt(s, i))
                            ELSE UpperChar(CharAt(s, i))
                    ELSE CharAt(s, i)
    IN Build(Ch, 1, Len(s))

RECURSIVE lstrip(_)
lstrip(s) == IF Len(s) > 0 /\ CharAt(s, 1) \in WS THEN lstrip(Tail(s)) ELSE s

RECURSIVE rstrip(_)
rstrip(s) ==
    IF Len(s) > 0 /\ CharAt(s, Len(s)) \in WS THEN rstrip(SubSeq(s, 1, Len(s) - 1)) ELSE s

strip(s) == rstrip(lstrip(s))

\* sub in s
Contains(sub, s) ==
    \E i \in 0..(Len(s) - Len(sub)) : SubSeq(s, i + 1, i + Len(sub)) = sub

\* int(digits)
RECURSIVE int(_)
int(s) ==
    IF Len(s) = 0 THEN 0
    ELSE 10 * int(SubSeq(s, 1, Len(s) - 1)) + (IndexIn(CharAt(s, Len(s)), Digits) - 1)

(***************************************************************************)
(* Python's re module, for the patterns the extractors use: a pattern is a *)
(* sequence of atoms (a literal, a word boundary \b, or a character class  *)
(* with a greedy quantifier) with one capture group spanning atoms gs..ge. *)
(* Matching is leftmost, greedy, with backtracking, as re.search does it.  *)
(***************************************************************************)
Lit(str) == [kind |-> "lit", str |-> str, cs |-> {}, lo |-> 1, hi |-> 1]
WordBoundary == [kind |-> "wb", str |-> "", cs |-> {}, lo |-> 0, hi |-> 0]
\* cs{lo,hi}; hi = -1 stands for no upper limit
Rep(cs, lo, hi) == [kind |-> "cls", str |-> "", cs |-> cs, lo |-> lo, hi |-> hi]
Star(cs) == Rep(cs, 0, -1)
Plus(cs) == Rep(cs, 1, -1)
Opt(cs) == Rep(cs, 0, 1)

\* a compiled pattern; ic is re.IGNORECASE
Pattern(atoms, gs, ge, ic) == [atoms |-> atoms, gs |-> gs, ge |-> ge, ic |-> ic]

NoMatch == [ok |-> FALSE, start |-> 0, ends |-> <<>>]

\* the number of consecutive characters of class cs that follow offset i
RunLen(cs, s, i) ==
    LET stop == CHOOSE j \in i..Len(s) :
                   /\ j = Len(s) \/ CharAt(s, j + 1) \notin cs
                   /\ \A k \in (i + 1)..j : CharAt(s, k) \in cs
    IN stop - i

IsWordBoundary(s, i) ==
    (i > 0 /\ CharAt(s, i) \in WORD) # (i < Len(s) /\ CharAt(s, i + 1) \in WORD)

LitMatches(str, s, i) ==
    /\ i + Len(str) <= Len(s)
    /\ SubSeq(s, i + 1, i + Len(str)) = str

\* Match atoms k.. of the pattern at offset i of s: the offsets at which the
\* atoms k.. end, the longest choice of each quantifier first.
RECURSIVE MatchAt(_, _, _, _)
RECURSIVE TryCount(_, _, _, _, _)
MatchAt(re, k, s, i) ==
    IF k > Len(re.atoms) THEN [ok |-> TRUE, start |-> i, ends |-> <<>>]
    ELSE LET a == re.atoms[k] IN
         CASE a.kind = "lit" ->
                IF LitMatches(a.str, s, i)
                   THEN LET r == MatchAt(re, k + 1, s, i + Len(a.str)) IN
                        IF r.ok THEN [r EXCEPT !.ends = <<i + Len(a.str)>> \o @] ELSE NoMatch
                   ELSE NoMatch
           [] a.kind = "wb" ->
                IF IsWordBoundary(s, i)
                   THEN LET r == MatchAt(re, k + 1, s, i) IN
                        IF r.ok THEN [r EXCEPT !.ends = <<i>> \o @] ELSE NoMatch
                   ELSE NoMatch
           [] OTHER ->
                LET run == RunLen(a.cs, s, i)
                    mx == IF a.hi >= 0 /\ run > a.hi THEN a.hi ELSE run
                IN IF mx < a.lo THEN NoMatch ELSE TryCount(re, k, s, i, mx)

TryCount(re, k, s, i, n) ==
    LET r == MatchAt(re, k + 1, s, i + n) IN
    IF r.ok THEN [r EXCEPT !.ends = <<i + n>> \o @]
    ELSE IF n > re.atoms[k].lo THEN TryCount(re, k, s, i, n - 1)
    ELSE NoMatch

\* re.search(pattern, s): the match at the leftmost offset that has one
RECURSIVE SearchIn(_, _, _, _)
SearchIn(re, s, from, to) ==
    IF from > to THEN NoMatch
    ELSE IF from = to
         THEN LET r == MatchAt(re, 1, s, from) IN
              IF r.ok THEN [r EXCEPT !.start = from] ELSE NoMatch
    ELSE LET mid == (from + to) \div 2
             left == SearchIn(re, s, from, mid)
         IN IF left.ok THEN left ELSE SearchIn(re, s, mid + 1, to)

\* Under re.IGNORECASE the text is matched lower-cased: the literals of every
\* pattern are lower-case and its character classes hold both cases of a letter.
search(re, text) ==
    LET s == IF re.ic THEN lower(text) ELSE text IN SearchIn(re, s, 0, Len(s))

\* match.group(1) (match.group() when the group spans the whole pattern)
group(re, s, m) ==
    LET from == IF re.gs = 1 THEN m.start ELSE m.ends[re.gs - 1]
    IN SubSeq(s, from + 1, m.ends[re.ge])

(***************************************************************************)
(* 1. The dataset registries (API_INFO) of the two pages.                  *)
(***************************************************************************)
Pages == {"airsewa", "petroleum"}

API_INFO_air_sewa ==
    [d \in {"aviation_grievance", "flight_schedule", "aviation_faqs", "airport_services"} |->
       CASE d = "aviation_grievance" ->
              [name |-> "Aviation Grievance - as on date",
               endpoint |-> "https://api.data.gov.in/resource/7be93611-4e76-4077-8d00-6232d01367cf",
               filters |-> <<>>]
         [] d = "flight_schedule" ->
              [name |-> "Flight Schedule",
               endpoint |-> "https://api.data.gov.in/resource/b71db183-2d15-4f61-9cee-7de3c83561a1",
               filters |-> <<"airline", "flightNumber", "origin", "destination",
                             "daysOfWeek", "scheduledDepartureTime", "scheduledArrivalTime",
                             "timezone", "validFrom", "validTo", "last_updated">>]
         [] d = "aviation_faqs" ->
              [name |-> "AirSewa - Aviation Frequently Asked Questions (FAQs)",
               endpoint |-> "https://api.data.gov.in/resource/bc015fd1-a544-43b1-b4a2-729475c4580c",
               filters |-> <<"category", "faqQuestion", "faqAnswer",
                             "faqQuestionHindi", "faqAnswerHindi", "last_updated">>]
         [] d = "airport_services" ->
              [name |-> "AirSewa - Airport Services Data",
               endpoint |-> "https://api.data.gov.in/resource/93710e81-db2b-4f95-9223-89156dfd8bc9",
               filters |-> <<"airport", "categoryenglish", "categoryHindi",
                             "titleEnglish", "titleHindi", "descriptionEnglish",
                             "descriptionHindi", "email", "phone", "website", "last_updated">>]]

API_INFO_petroleum ==
    [d \in {"consumption_petroleum"} |->
       [name |-> "Consumption of Petroleum Products",
        endpoint |-> "https://api.data.gov.in/resource/7b624b4a-1456-4945-80d0-dfb5e40ddcff",
        filters |-> <<"_month_", "year", "products", "quantity_000_metric_tonnes_",
                      "updated_date">>]]

Registry(pg) == IF pg = "airsewa" THEN API_INFO_air_sewa ELSE API_INFO_petroleum

\* the elements of a list
Range(seq) == { seq[i] : i \in 1..Len(seq) }

(***************************************************************************)
(* 3. Query classification.                                                *)
(***************************************************************************)
\* the keywords dict of the Air Sewa page, in its insertion order
keywords_air_sewa ==
    << <<"aviation_grievance", <<"grievance", "complaint", "issue">> >>,
       <<"flight_schedule", <<"flight schedule", "flight status", "flight number",
                              "departure", "arrival">> >>,
       <<"aviation_faqs", <<"faq", "frequently asked questions", "question", "answer">> >>,
       <<"airport_services", <<"airport services", "services", "facility",
                               "services data">> >> >>

keywords_petroleum ==
    <<"consumption", "petroleum", "lpg", "atf", "hsd", "sko", "naphtha", "bitumen",
      "fo & lshs">>

\* any(kw in query_lower for kw in kws)
AnyKeywordIn(kws, query_lower) == \E k \in 1..Len(kws) : Contains(kws[k], query_lower)

\* (mutant) the scan keeps going after a hit, so the last dataset with a hit wins
RECURSIVE FirstKeywordHit_LastWins(_, _, _)
FirstKeywordHit_LastWins(table, n, query_lower) ==
    IF n > Len(table) THEN None
    ELSE LET later == FirstKeywordHit_LastWins(table, n + 1, query_lower) IN
         IF later # None THEN later
         ELSE IF AnyKeywordIn(table[n][2], query_lower) THEN table[n][1] ELSE None

\* for api_id, kws in keywords.items(): ... return api_id at the first hit
RECURSIVE FirstKeywordHit(_, _, _)
FirstKeywordHit(table, n, query_lower) ==
    IF n > Len(table) THEN None
    ELSE IF AnyKeywordIn(table[n][2], query_lower) THEN table[n][1]
    ELSE FirstKeywordHit(table, n + 1, query_lower)

classify_query_air_sewa(query) == FirstKeywordHit(keywords_air_sewa, 1, lower(query))

classify_query_petroleum(query) ==
    IF AnyKeywordIn(keywords_petroleum, lower(query)) THEN "consumption_petroleum" ELSE None

\* (mutant) a text without any keyword falls through to the page's first dataset
classify_query_Fallback(pg, query) ==
    LET hit == IF pg = "airsewa" THEN classify_query_air_sewa(query)
                                 ELSE classify_query_petroleum(query)
    IN IF hit # None THEN hit
       ELSE IF pg = "airsewa" THEN "aviation_grievance" ELSE "consumption_petroleum"

classify_query(pg, query) ==
    IF pg = "airsewa" THEN classify_query_air_sewa(query) ELSE classify_query_petroleum(query)

(***************************************************************************)
(* 4. Filter parsing.  A FilterSet is a dict: a function from its keys.    *)
(***************************************************************************)
\* filters[key] = val
Put(f, key, val) == [k \in (DOMAIN f) \cup {key} |-> IF k = key THEN val ELSE f[k]]

\* filters = {"offset": 0, "limit": <default>, "format": "csv"}
DefaultFilters(limit) ==
    [k \in {"offset", "limit", "format"} |->
       CASE k = "offset" -> 0 [] k = "limit" -> limit [] k = "format" -> "csv"]

\* for entry in vocabulary: if entry.lower() in query.lower(): ...; break
RECURSIVE FirstVocabHit(_, _, _)
FirstVocabHit(vocabulary, n, query_lower) ==
    IF n > Len(vocabulary) THEN None
    ELSE IF Contains(lower(vocabulary[n]), query_lower) THEN vocabulary[n]
    ELSE FirstVocabHit(vocabulary, n + 1, query_lower)

\* [day for day in days if day.lower() in query.lower()]
RECURSIVE FoundVocab(_, _, _)
FoundVocab(vocabulary, n, query_lower) ==
    IF n > Len(vocabulary) THEN <<>>
    ELSE (IF Contains(lower(vocabulary[n]), query_lower) THEN <<vocabulary[n]>> ELSE <<>>)
         \o FoundVocab(vocabulary, n + 1, query_lower)

\* ",".join(found)
RECURSIVE join(_, _)
join(sep, found) ==
    IF Len(found) = 0 THEN ""
    ELSE IF Len(found) = 1 THEN found[1]
    ELSE found[1] \o sep \o join(sep, Tail(found))

\* One statement group of an extractor: it may set filters[key].
\*   "vocab": for entry in vocabulary: if entry.lower() in query.lower():
\*                filters[key] = entry; break
\*   "join":  found = [e for e in vocabulary if e.lower() in query.lower()]
\*            if found: filters[key] = ",".join(found)
\*   "re":    m = re.search(pattern, query.lower() if lowered else query)
\*            if m: filters[key] = conv(m.group(1))
VocabRule(key, vocabulary) ==
    [how |-> "vocab", key |-> key, vocabulary |-> vocabulary,
     re |-> Pattern(<<>>, 1, 1, FALSE), lowered |-> FALSE, conv |-> ""]
JoinRule(key, vocabulary) ==
    [how |-> "join", key |-> key, vocabulary |-> vocabulary,
     re |-> Pattern(<<>>, 1, 1, FALSE), lowered |-> FALSE, conv |-> ""]
ReRule(key, re, lowered, conv) ==
    [how |-> "re", key |-> key, vocabulary |-> <<>>,
     re |-> re, lowered |-> lowered, conv |-> conv]

\* what the statement does with m.group(1): nothing, .strip(), .strip().title(),
\* .upper(), or int(...)
Convert(conv, g) ==
    CASE conv = "strip" -> strip(g)
      [] conv = "strip_title" -> title(strip(g))
      [] conv = "upper" -> upper(g)
      [] conv = "int" -> int(g)
      [] OTHER -> g

ApplyRule(f, rule, query, query_lower) ==
    CASE rule.how = "vocab" ->
           LET hit == FirstVocabHit(rule.vocabulary, 1, query_lower)
           IN IF hit = None THEN f ELSE Put(f, rule.key, hit)
      [] rule.how = "join" ->
           LET found == FoundVocab(rule.vocabulary, 1, query_lower)
           IN IF Len(found) > 0 THEN Put(f, rule.key, join(",", found)) ELSE f
      [] OTHER ->
           LET text == IF rule.lowered THEN query_lower ELSE query
               m == search(rule.re, text)
           IN IF m.ok THEN Put(f, rule.key, Convert(rule.conv, group(rule.re, text, m))) ELSE f

\* the statements of an extractor, run in order on the default FilterSet
RECURSIVE ApplyRules(_, _, _, _, _)
ApplyRules(f, rules, n, query, query_lower) ==
    IF n > Len(rules) THEN f
    ELSE ApplyRules(ApplyRule(f, rules[n], query, query_lower), rules, n + 1,
                    query, query_lower)

Extract(default_limit, rules, query) ==
    ApplyRules(DefaultFilters(default_limit), rules, 1, query, lower(query))

\* [:\-]?
OptSep == Opt({":", "-"})

\* (\d{4}-\d{2}-\d{2}) after a label
DateAfter(label) ==
    Pattern(label \o <<Star(WS), OptSep, Star(WS),
                      Rep(DIGIT, 4, 4), Lit("-"), Rep(DIGIT, 2, 2), Lit("-"), Rep(DIGIT, 2, 2)>>,
            Len(label) + 4, Len(label) + 8, FALSE)

\* label \s* [:\-]? \s* (.+)  with re.IGNORECASE
RestAfter(label) ==
    Pattern(label \o <<Star(WS), OptSep, Star(WS), Plus(ANY)>>,
            Len(label) + 4, Len(label) + 4, TRUE)

\* (mutant) r'limit\s*(\d)': the + of the digits is lost
re_limit_OneDigit == Pattern(<<Lit("limit"), Star(WS), Rep(DIGIT, 1, 1)>>, 3, 3, FALSE)

\* r'limit\s*(\d+)'
re_limit == Pattern(<<Lit("limit"), Star(WS), Plus(DIGIT)>>, 3, 3, FALSE)

\* r'last\s*updated\s*[:\-]?\s*(\d{4}-\d{2}-\d{2})'
re_last_updated == DateAfter(<<Lit("last"), Star(WS), Lit("updated")>>)

parse_filters_aviation_grievance(query) ==
    Extract(10, <<ReRule("limit", re_limit, TRUE, "int")>>, query)

airlines == <<"IndiGo", "GoAir", "Jet Airways", "Air India", "Etihad Airways", "Vistara",
              "British Airways", "Thai Airways">>

days == <<"Monday", "Tuesday", "Wednesday", "Thursday", "Friday", "Saturday", "Sunday">>

\* r'flight\s*number\s*(\w+)'
re_flight_number ==
    Pattern(<<Lit("flight"), Star(WS), Lit("number"), Star(WS), Plus(WORD)>>, 5, 5, FALSE)

\* r'from\s+([A-Za-z\s]+)'
re_origin == Pattern(<<Lit("from"), Plus(WS), Plus(LETTER \cup WS)>>, 3, 3, FALSE)

\* r'to\s+([A-Za-z\s]+)'
re_destination == Pattern(<<Lit("to"), Plus(WS), Plus(LETTER \cup WS)>>, 3, 3, FALSE)

\* label \s+ time \s* [:\-]? \s* (\d{1,2}:\d{2})
TimeAfter(label) ==
    Pattern(<<Lit(label), Plus(WS), Lit("time"), Star(WS), OptSep, Star(WS),
              Rep(DIGIT, 1, 2), Lit(":"), Rep(DIGIT, 2, 2)>>, 7, 9, FALSE)

re_departure_time == TimeAfter("departure")
re_arrival_time == TimeAfter("arrival")

\* r'timezone\s*[:\-]?\s*([\w\s/]+)'
re_timezone ==
    Pattern(<<Lit("timezone"), Star(WS), OptSep, Star(WS), Plus(WORD \cup WS \cup {"/"})>>,
            5, 5, FALSE)

re_valid_from == DateAfter(<<Lit("valid"), Star(WS), Lit("from")>>)
re_valid_to == DateAfter(<<Lit("valid"), Star(WS), Lit("to")>>)

parse_filters_flight_schedule(query) ==
    Extract(10,
            <<VocabRule("airline", airlines),
              ReRule("flightNumber", re_flight_number, TRUE, "upper"),
              ReRule("origin", re_origin, TRUE, "strip_title"),
              ReRule("destination", re_destination, TRUE, "strip_title"),
              JoinRule("daysOfWeek", days),
              ReRule("scheduledDepartureTime", re_departure_time, TRUE, ""),
              ReRule("scheduledArrivalTime", re_arrival_time, TRUE, ""),
              ReRule("timezone", re_timezone, TRUE, "strip_title"),
              ReRule("validFrom", re_valid_from, TRUE, ""),
              ReRule("validTo", re_valid_to, TRUE, ""),
              ReRule("last_updated", re_last_updated, TRUE, ""),
              ReRule("limit", re_limit, TRUE, "int")>>,
            query)

categories == <<"Passenger", "Cargo", "Security", "Facilities">>

re_question == RestAfter(<<Lit("question")>>)
re_answer == RestAfter(<<Lit("answer")>>)
re_question_hindi == RestAfter(<<Lit("question"), Plus(WS), Lit("hindi")>>)
re_answer_hindi == RestAfter(<<Lit("answer"), Plus(WS), Lit("hindi")>>)

parse_filters_aviation_faqs(query) ==
    Extract(10,
            <<VocabRule("category", categories),
              ReRule("faqQuestion", re_question, FALSE, "strip"),
              ReRule("faqAnswer", re_answer, FALSE, "strip"),
              ReRule("faqQuestionHindi", re_question_hindi, FALSE, "strip"),
              ReRule("faqAnswerHindi", re_answer_hindi, FALSE, "strip"),
              ReRule("last_updated", re_last_updated, TRUE, ""),
              ReRule("limit", re_limit, TRUE, "int")>>,
            query)

airports == <<"Chennai", "Mumbai", "Bengaluru", "Indore", "Delhi", "Hyderabad">>

categories_eng == <<"Parking and Transportation", "Special Assistance Services">>

\* the two Hindi category names, written with the stand-in letters
categories_hin == <<"#$%^*+ =~ #|^~$+", "~^*=| |$#=+# |=~#=">>

re_title_english == RestAfter(<<Lit("title"), Star(WS), Lit("english")>>)
re_title_hindi == RestAfter(<<Lit("title"), Star(WS), Lit("hindi")>>)
re_description_english == RestAfter(<<Lit("description"), Star(WS), Lit("english")>>)
re_description_hindi == RestAfter(<<Lit("description"), Star(WS), Lit("hindi")>>)

\* r'email\s*[:\-]?\s*([\w\.-]+@[\w\.-]+)' with re.IGNORECASE
re_email ==
    Pattern(<<Lit("email"), Star(WS), OptSep, Star(WS),
              Plus(WORD \cup {".", "-"}), Lit("@"), Plus(WORD \cup {".", "-"})>>, 5, 7, TRUE)

\* r'phone\s*[:\-]?\s*(\d{10,15})' with re.IGNORECASE
re_phone == Pattern(<<Lit("phone"), Star(WS), OptSep, Star(WS), Rep(DIGIT, 10, 15)>>, 5, 5, TRUE)

\* r'website\s*[:\-]?\s*(https?://\S+)' with re.IGNORECASE
re_website ==
    Pattern(<<Lit("website"), Star(WS), OptSep, Star(WS),
              Lit("http"), Opt({"s", "S"}), Lit("://"), Plus(NONWS)>>, 5, 8, TRUE)

parse_filters_airport_services(query) ==
    Extract(10,
            <<VocabRule("airport", airports),
              VocabRule("categoryenglish", categories_eng),
              VocabRule("categoryHindi", categories_hin),
              ReRule("titleEnglish", re_title_english, FALSE, "strip"),
              ReRule("titleHindi", re_title_hindi, FALSE, "strip"),
              ReRule("descriptionEnglish", re_description_english, FALSE, "strip"),
              ReRule("descriptionHindi", re_description_hindi, FALSE, "strip"),
              ReRule("email", re_email, FALSE, ""),
              ReRule("phone", re_phone, FALSE, ""),
              ReRule("website", re_website, FALSE, ""),
              ReRule("last_updated", re_last_updated, TRUE, ""),
              ReRule("limit", re_limit, TRUE, "int")>>,
            query)

months == <<"January", "February", "March", "April", "May", "June",
            "July", "August", "September", "October", "November", "December">>

possible_products == <<"LPG", "ATF", "HSD", "SKO", "Naphtha", "Bitumen", "Others", "FO & LSHS">>

\* r'\b\d{4}\b'
re_year == Pattern(<<WordBoundary, Rep(DIGIT, 4, 4), WordBoundary>>, 1, 3, FALSE)

\* r'quantity\s*[:\-]?\s*(\d+)'
re_quantity == Pattern(<<Lit("quantity"), Star(WS), OptSep, Star(WS), Plus(DIGIT)>>, 5, 5, FALSE)

\* r'updated\s*date\s*[:\-]?\s*(\d{4}-\d{2}-\d{2})'
re_updated_date == DateAfter(<<Lit("updated"), Star(WS), Lit("date")>>)

parse_filters_petroleum(query) ==
    Extract(15,
            <<VocabRule("month", months),
              ReRule("year", re_year, FALSE, ""),
              VocabRule("products", possible_products),
              ReRule("quantity_000_metric_tonnes_", re_quantity, TRUE, ""),
              ReRule("updated_date", re_updated_date, TRUE, ""),
              ReRule("limit", re_limit, TRUE, "int")>>,
            query)

\* the if/elif chain of main() that picks the extractor; {} for any other identifier
EmptyFilters == [k \in {} |-> 0]

parse_filters(pg, api_id, query) ==
    CASE pg = "airsewa" /\ api_id = "aviation_grievance" ->
           parse_filters_aviation_grievance(query)
      [] pg = "airsewa" /\ api_id = "flight_schedule" -> parse_filters_flight_schedule(query)
      [] pg = "airsewa" /\ api_id = "aviation_faqs" -> parse_filters_aviation_faqs(query)
      [] pg = "airsewa" /\ api_id = "airport_services" -> parse_filters_airport_services(query)
      [] pg = "petroleum" /\ api_id = "consumption_petroleum" -> parse_filters_petroleum(query)
      [] OTHER -> EmptyFilters

(***************************************************************************)
(* 2. call_api: credentials, request parameters, the HTTP GET and the      *)
(* normalisation of the response.                                          *)
(***************************************************************************)
\* the api_key_mapping dict literal: dataset identifier -> name of its secret,
\* in the order the literal reads st.secrets
api_key_names(pg) ==
    IF pg = "airsewa"
       THEN << <<"aviation_grievance", "AVIATION_GRI_API_KEY">>,
               <<"flight_schedule", "FLIGHT_SCHEDULE_API_KEY">>,
               <<"aviation_faqs", "AV_FAQ_API_KEY">>,
               <<"airport_services", "AIRPORT_SERVICES_API_KEY">> >>
       ELSE << <<"consumption_petroleum", "PETROLEUM_API_KEY">> >>

SecretNames(pg) == { api_key_names(pg)[i][2] : i \in 1..Len(api_key_names(pg)) }

\* every whole state of the credential store: each secret absent, empty or set
SecretStores(pg) == UNION { [S -> {"", "secret-value"}] : S \in SUBSET SecretNames(pg) }

\* st.secrets[name] raises KeyError for a name the store does not hold, and the
\* dict literal reads every secret of the page before any lookup
MappingRaises(pg, store) == \E n \in SecretNames(pg) : n \notin DOMAIN store

\* api_key_mapping.get(api_identifier)
api_key_of(pg, store, api_id) ==
    IF \E i \in 1..Len(api_key_names(pg)) : api_key_names(pg)[i][1] = api_id
       THEN store[(CHOOSE e \in Range(api_key_names(pg)) : e[1] = api_id)[2]]
       ELSE None

\* not api_key
KeyMissing(key) == key = None \/ key = ""

\* dict.get(key, default)
Get(d, key, default) == IF key \in DOMAIN d THEN d[key] ELSE default

\* the default of filters.get("limit", ...) in the page's call_api
CallApiDefaultLimit(pg) == IF pg = "airsewa" THEN 10 ELSE 15

\* if filters.get(filter_key)
HasTruthy(f, key) == key \in DOMAIN f /\ f[key] # ""

\* (mutant) every field the extractor produced goes into the request
SentFilters_AllExtracted(api, f) ==
    { k \in (DOMAIN f) \ {"offset", "limit", "format"} : HasTruthy(f, k) }

\* the descriptor's filter fields that go into the request
SentFilters(api, f) == { k \in Range(api.filters) : HasTruthy(f, k) }

FilterParam(k) == "filters[" \o k \o "]"

\* params = {...}; for filter_key in api["filters"]: ...
BuildParams(pg, api, key, f, fmt) ==
    LET base == {"api-key", "format", "offset", "limit"}
        sent == SentFilters(api, f)
    IN [p \in base \cup { FilterParam(k) : k \in sent } |->
          CASE p = "api-key" -> key
            [] p = "format" -> fmt
            [] p = "offset" -> Get(f, "offset", 0)
            [] p = "limit" -> Get(f, "limit", CallApiDefaultLimit(pg))
            [] OTHER -> f[CHOOSE k \in sent : FilterParam(k) = p]]

\* ---- responses ----------------------------------------------------------
NoText == [lines |-> <<>>, json |-> "", records |-> <<>>]

NoResponse == [kind |-> "none", status_code |-> 0, text |-> NoText]

CsvHeader == <<"airline", "origin">>
CsvRow(i) == <<"value" \o ToString(i), "city" \o ToString(i)>>
CsvLongRow == <<"value", "city", "extra">>

\* delimited bodies: an empty body, a header with 0..MaxRows rows, and a body
\* whose third line has more fields than the lines before it
CsvTexts ==
    {[NoText EXCEPT !.lines = <<>>]}
    \cup {[NoText EXCEPT !.lines = <<CsvHeader>> \o [i \in 1..n |-> CsvRow(i)]] : n \in 0..MaxRows}
    \cup {[NoText EXCEPT !.lines = <<CsvHeader, CsvRow(1), CsvLongRow>>]}

JsonRecord(i) == [c \in Range(CsvHeader) |-> "value" \o ToString(i)]

\* JSON bodies: not JSON at all, a top-level array, an object without a
\* "records" key, and an object whose "records" holds 0..MaxRows records
JsonTexts ==
    {[NoText EXCEPT !.json = k] : k \in {"malformed", "array", "object_without_records"}}
    \cup {[NoText EXCEPT !.json = "object", !.records = [i \in 1..n |-> JsonRecord(i)]]
            : n \in 0..MaxRows}

StatusCodes == {200, 404, 500}

\* what requests.get can do: raise (no connection), or return a response in
\* the format the request asked for
Responses(fmt) ==
    {[NoResponse EXCEPT !.kind = "connection_error"]}
    \cup {[kind |-> "http", status_code |-> c, text |-> NoText] : c \in StatusCodes \ {200}}
    \cup {[kind |-> "http", status_code |-> 200, text |-> t]
            : t \in (IF fmt = "csv" THEN CsvTexts ELSE JsonTexts)}

\* pd.read_csv(io.StringIO(response.text)): raises EmptyDataError on an empty
\* body and ParserError on a line with more fields than expected
read_csv(text) ==
    LET lines == text.lines IN
    IF Len(lines) = 0 THEN [ok |-> FALSE, error |-> "No columns to parse from file", rows |-> <<>>]
    ELSE IF \E k \in 3..Len(lines) : Len(lines[k]) > Len(lines[1]) /\ Len(lines[k]) > Len(lines[2])
         THEN [ok |-> FALSE, error |-> "Error tokenizing data. C error", rows |-> <<>>]
    ELSE [ok |-> TRUE, error |-> "",
          rows |-> [i \in 1..(Len(lines) - 1) |->
                      [c \in Range(lines[1]) |->
                         LET j == CHOOSE j \in 1..Len(lines[1]) : lines[1][j] = c
                         IN IF j <= Len(lines[i + 1]) THEN lines[i + 1][j] ELSE "NaN"]]]

\* (mutant) records = data["records"]: a missing key is a KeyError
json_records_Subscript(text) ==
    CASE text.json = "malformed" -> [ok |-> FALSE, error |-> "Expecting value", rows |-> <<>>]
      [] text.json = "array" ->
           [ok |-> FALSE, error |-> "list indices must be integers", rows |-> <<>>]
      [] text.json = "object_without_records" ->
           [ok |-> FALSE, error |-> "'records'", rows |-> <<>>]
      [] OTHER -> [ok |-> TRUE, error |-> "", rows |-> text.records]

\* data = response.json(); records = data.get("records", [])
json_records(text) ==
    CASE text.json = "malformed" -> [ok |-> FALSE, error |-> "Expecting value", rows |-> <<>>]
      [] text.json = "array" ->
           [ok |-> FALSE, error |-> "'list' object has no attribute 'get'", rows |-> <<>>]
      [] OTHER -> [ok |-> TRUE, error |-> "", rows |-> text.records]

NoResult == [k \in {} |-> ""]

MsgNoData == "No data found for the given filters."

\* return {"error": ...}
ErrorResult(msg) == [k \in {"error"} |-> msg]

\* result = {"filters_used": filters, "response_data": ..., "message": ...}
Result(f, data, msg) ==
    [k \in {"filters_used", "response_data", "message"} |->
       CASE k = "filters_used" -> f [] k = "response_data" -> data [] k = "message" -> msg]

\* lines 110-137: the result call_api returns for a response
Normalize(f, fmt, resp) ==
    IF resp.status_code = 200
       THEN IF fmt = "csv"
               THEN LET df == read_csv(resp.text) IN
                    IF df.ok
                       THEN Result(f, df.rows, IF Len(df.rows) = 0 THEN MsgNoData ELSE "")
                       ELSE Result(f, <<>>, "Failed to parse CSV data: " \o df.error)
               ELSE LET js == json_records(resp.text) IN
                    IF js.ok
                       THEN Result(f, js.rows, IF Len(js.rows) = 0 THEN MsgNoData ELSE "")
                       ELSE Result(f, <<>>, "Failed to parse JSON data: " \o js.error)
       ELSE Result(f, <<>>,
                   "Request failed with status code " \o ToString(resp.status_code) \o ".")

(***************************************************************************)
(* 5. main(): one Search click, step by step.                              *)
(***************************************************************************)
Widget(kind, text) == [widget |-> kind, text |-> text]

MsgEnterQuery == "Please enter a valid query."
MsgAssistance == "Assistance Needed: your query doesn't match the available data parameters."
MsgNoAssistance == "No data found and no assistance message provided."

\* the texts typed into the query box
MainQueries(pg) ==
    IF pg = "airsewa"
       THEN {"", "   ", "hello there", "weather in Delhi limit 5",
             "Show me the aviation grievances limit 20",
             "What is the flight schedule for IndiGo flight number 451 from Bengaluru to Lucknow?",
             "I have a question about Jet Airways baggage services.",
             "Where are the pharmacy services at Mumbai Airport?",
             "complaint about flight status on Monday and Friday",
             "faq answer: refund limit 0"}
       ELSE {"", "  ", "hello there", "price of diesel in March limit 5",
             "Show me the consumption of LPG in 2022.",
             "I want the monthly consumption of ATF in March 2023.",
             "How much Naphtha was consumed in May 2021?",
             "Provide the quantity of Bitumen in 2020.",
             "petroleum quantity: 40 limit 3"}

\* the texts another caller of call_api extracted its filters from
DirectQueries(pg) ==
    IF pg = "airsewa"
       THEN {"hello there", "flight number 451 from Delhi limit 7"}
       ELSE {"hello there", "consumption of LPG in March 2022"}

\* identifiers another caller may pass to call_api
DirectIdentifiers(pg) == (DOMAIN Registry(pg)) \cup {"unknown_api"}

Locals ==
    /\ caller = None /\ user_query = "" /\ api_identifier = None
    /\ filters = EmptyFilters /\ format_type = None /\ params = EmptyFilters
    /\ http_log = <<>> /\ response = NoResponse /\ result = NoResult
    /\ raised = None /\ shown = <<>>

Init ==
    /\ page \in Pages
    /\ API_INFO = Registry(page)
    /\ secrets \in SecretStores(page)
    /\ pc = "idle"
    /\ runs = 0
    /\ Locals

\* (mutant) the Search click without the blank check: every text is classified
Search_NoBlankCheck(q) ==
    /\ pc = "idle"
    /\ user_query' = q
    /\ caller' = "main"
    /\ shown' = shown
    /\ pc' = "classify"
    /\ UNCHANGED <<page, runs, API_INFO, secrets, api_identifier, filters, format_type, params,
                   http_log, response, result, raised>>

\* user_query = st.text_input(...); if st.button("Search"): if user_query.strip() == "": ...
Search(q) ==
    /\ pc = "idle"
    /\ user_query' = q
    /\ caller' = "main"
    /\ IF strip(q) = ""
          THEN /\ shown' = <<Widget("warning", MsgEnterQuery)>>
               /\ pc' = "done"
          ELSE /\ shown' = shown
               /\ pc' = "classify"
    /\ UNCHANGED <<page, runs, API_INFO, secrets, api_identifier, filters, format_type, params,
                   http_log, response, result, raised>>

\* api_identifier = classify_query(user_query); if not api_identifier: st.info(...)
Classify ==
    /\ pc = "classify"
    /\ api_identifier' = classify_query(page, user_query)
    /\ IF api_identifier' = None
          THEN /\ shown' = <<Widget("info", MsgAssistance)>>
               /\ pc' = "done"
          ELSE /\ shown' = shown
               /\ pc' = "extract"
    /\ UNCHANGED <<page, runs, API_INFO, secrets, caller, user_query, filters, format_type, params,
                   http_log, response, result, raised>>

\* filters = parse_filters_...(user_query); result = call_api(api_identifier, filters)
ExtractFilters ==
    /\ pc = "extract"
    /\ filters' = parse_filters(page, api_identifier, user_query)
    /\ format_type' = "csv"
    /\ pc' = "call_api"
    /\ UNCHANGED <<page, runs, API_INFO, secrets, caller, user_query, api_identifier, params,
                   http_log, response, result, raised, shown>>

\* call_api called by any other caller, with any identifier and format
DirectCall(id, q, fmt) ==
    /\ pc = "idle"
    /\ caller' = "direct"
    /\ user_query' = q
    /\ api_identifier' = id
    /\ filters' = parse_filters(page, id, q)
    /\ format_type' = fmt
    /\ pc' = "call_api"
    /\ UNCHANGED <<page, runs, API_INFO, secrets, params, http_log, response, result, raised, shown>>

\* call_api up to requests.get(url, params=params)
CallApi ==
    /\ pc = "call_api"
    /\ IF MappingRaises(page, secrets)
          THEN /\ raised' = "KeyError"
               /\ pc' = "raised"
               /\ UNCHANGED <<params, http_log, result>>
          ELSE IF KeyMissing(api_key_of(page, secrets, api_identifier))
          THEN /\ result' = ErrorResult("API key not found for the selected API.")
               /\ pc' = "returned"
               /\ UNCHANGED <<params, http_log, raised>>
          ELSE IF api_identifier \notin DOMAIN API_INFO
          THEN /\ result' = ErrorResult("Invalid API identifier.")
               /\ pc' = "returned"
               /\ UNCHANGED <<params, http_log, raised>>
          ELSE /\ params' = BuildParams(page, API_INFO[api_identifier],
                                        api_key_of(page, secrets, api_identifier),
                                        filters, format_type)
               /\ http_log' = Append(http_log, [url |-> API_INFO[api_identifier].endpoint,
                                                params |-> params'])
               /\ pc' = "http"
               /\ UNCHANGED <<result, raised>>
    /\ UNCHANGED <<page, runs, API_INFO, secrets, caller, user_query, api_identifier, filters,
                   format_type, response, shown>>

\* (mutant) a non-200 response sends call_api back to issue the request again
AfterResponse_Retry(resp) == IF resp.status_code # 200 THEN "call_api" ELSE "returned"

\* where call_api goes once requests.get has returned: straight to its return
AfterResponse(resp) == "returned"

\* requests.get returns (or raises) and call_api builds its result
Receive(resp) ==
    /\ pc = "http"
    /\ IF resp.kind = "connection_error"
          THEN /\ raised' = "ConnectionError"
               /\ pc' = "raised"
               /\ UNCHANGED <<response, result>>
          ELSE /\ response' = resp
               /\ result' = Normalize(filters, format_type, resp)
               /\ pc' = AfterResponse(resp)
               /\ raised' = raised
    /\ UNCHANGED <<page, runs, API_INFO, secrets, caller, user_query, api_identifier, filters,
                   format_type, params, http_log, shown>>

\* pd.DataFrame(records).empty
DataFrameEmpty(records) == \A i \in 1..Len(records) : DOMAIN records[i] = {}

\* lines 456-478 of main(): what is displayed for a result
RenderResult(r) ==
    IF "response_data" \in DOMAIN r /\ Len(r["response_data"]) > 0
       THEN IF ~DataFrameEmpty(r["response_data"])
               THEN <<Widget("success", "Data retrieved successfully!"),
                      Widget("dataframe", ""),
                      Widget("download_button", "Download Data as CSV")>>
               ELSE <<Widget("warning", Get(r, "message", MsgNoData))>>
       ELSE IF "message" \in DOMAIN r /\ r["message"] # ""
               THEN <<Widget("info", r["message"])>>
               ELSE <<Widget("warning", MsgNoAssistance)>>

Render ==
    /\ pc = "returned"
    /\ caller = "main"
    /\ shown' = RenderResult(result)
    /\ pc' = "done"
    /\ UNCHANGED <<page, runs, API_INFO, secrets, caller, user_query, api_identifier, filters,
                   format_type, params, http_log, response, result, raised>>

\* an exception that leaves call_api is not caught by main(): Streamlit shows it
Uncaught ==
    /\ pc = "raised"
    /\ caller = "main"
    /\ shown' = <<Widget("exception", raised)>>
    /\ pc' = "done"
    /\ UNCHANGED <<page, runs, API_INFO, secrets, caller, user_query, api_identifier, filters,
                   format_type, params, http_log, response, result, raised>>

\* the other caller has the result (or the exception)
DirectDone ==
    /\ pc \in {"returned", "raised"}
    /\ caller = "direct"
    /\ pc' = "done"
    /\ UNCHANGED <<page, runs, API_INFO, secrets, caller, user_query, api_identifier, filters,
                   format_type, params, http_log, response, result, raised, shown>>

\* (mutant) the FilterSet lives in a module-level dict that outlasts the run
Rerun_KeepsFilters ==
    /\ pc = "done"
    /\ runs < MaxRuns
    /\ runs' = runs + 1
    /\ pc' = "idle"
    /\ caller' = None /\ user_query' = "" /\ api_identifier' = None
    /\ filters' = filters /\ format_type' = None /\ params' = EmptyFilters
    /\ http_log' = <<>> /\ response' = NoResponse /\ result' = NoResult
    /\ raised' = None /\ shown' = <<>>
    /\ UNCHANGED <<page, API_INFO, secrets>>

\* the script is run again for the next query: the locals of the last run are gone
Rerun ==
    /\ pc = "done"
    /\ runs < MaxRuns
    /\ runs' = runs + 1
    /\ pc' = "idle"
    /\ caller' = None /\ user_query' = "" /\ api_identifier' = None
    /\ filters' = EmptyFilters /\ format_type' = None /\ params' = EmptyFilters
    /\ http_log' = <<>> /\ response' = NoResponse /\ result' = NoResult
    /\ raised' = None /\ shown' = <<>>
    /\ UNCHANGED <<page, API_INFO, secrets>>

Next ==
    \/ \E q \in MainQueries(page) : Search(q)
    \/ Classify
    \/ ExtractFilters
    \/ \E id \in DirectIdentifiers(page), q \in DirectQueries(page), fmt \in {"csv", "json"} :
          DirectCall(id, q, fmt)
    \/ CallApi
    \/ \E resp \in Responses(format_type) : Receive(resp)
    \/ Render
    \/ Uncaught
    \/ DirectDone
    \/ Rerun

Spec == Init /\ [][Next]_vars

(***************************************************************************)
(* The classifier, the extractors and the parameter building as pure       *)
(* functions of a query text: every text made of at most MaxFrags          *)
(* fragments is classified, run through every extractor of the page, and   *)
(* its FilterSet turned into request parameters.                           *)
(***************************************************************************)
FnFragments(pg) ==
    IF pg = "airsewa"
       THEN {"grievance ", "tissue",
             "IndiGo flight number 451 from Agra to Goa? ",
             "Air India Monday Friday last updated: 2023-07-01 ",
             "departure time: 9:05 arrival time 12:30 timezone: ist ",
             "valid from 2024-01-05 valid to 2024-12-31 ",
             "faq Cargo Security Question: bag ", "answer hindi - ok ",
             "services Mumbai Delhi parking and transportation ",
             "#$%^*+ =~ #|^~$+ title english: spa description hindi: ~| ",
             "email: a@b.in phone: 9876543210 website: https://a.in ",
             "limit", "5", "limit 12 "}
       ELSE {"consumption ", "LPG ", "atf", "March ", "May", "2022 ", "20",
             "quantity: 40 updated date 2024-01-05 ", "limit", "5", "limit 12 "}

RECURSIVE Concatenations(_, _)
Concatenations(frags, n) ==
    IF n = 0 THEN {""}
    ELSE LET shorter == Concatenations(frags, n - 1)
         IN shorter \cup { t \o f : t \in shorter, f \in frags }

FnQueries(pg) == Concatenations(FnFragments(pg), MaxFrags)

\* a credential store that holds every secret of the page
FullStore(pg) == [n \in SecretNames(pg) |-> "secret-value"]

InitFn ==
    /\ page \in Pages
    /\ API_INFO = Registry(page)
    /\ secrets = FullStore(page)
    /\ pc = "fn_input"
    /\ runs = 0
    /\ user_query \in FnQueries(page)
    /\ caller = None /\ api_identifier = None
    /\ filters = EmptyFilters /\ format_type = None /\ params = EmptyFilters
    /\ http_log = <<>> /\ response = NoResponse /\ result = NoResult
    /\ raised = None /\ shown = <<>>

FnClassify ==
    /\ pc = "fn_input"
    /\ api_identifier' = classify_query(page, user_query)
    /\ pc' = "fn_classified"
    /\ UNCHANGED <<page, runs, API_INFO, secrets, caller, user_query, filters, format_type, params,
                   http_log, response, result, raised, shown>>

FnExtract(d) ==
    /\ pc = "fn_classified"
    /\ api_identifier' = d
    /\ filters' = parse_filters(page, d, user_query)
    /\ pc' = "fn_extracted"
    /\ UNCHANGED <<page, runs, API_INFO, secrets, caller, user_query, format_type, params,
                   http_log, response, result, raised, shown>>

FnBuildParams(fmt) ==
    /\ pc = "fn_extracted"
    /\ format_type' = fmt
    /\ params' = BuildParams(page, API_INFO[api_identifier],
                             api_key_of(page, secrets, api_identifier), filters, fmt)
    /\ pc' = "fn_params"
    /\ UNCHANGED <<page, runs, API_INFO, secrets, caller, user_query, api_identifier, filters,
                   http_log, response, result, raised, shown>>

NextFn ==
    \/ FnClassify
    \/ \E d \in DOMAIN API_INFO : FnExtract(d)
    \/ \E fmt \in {"csv", "json"} : FnBuildParams(fmt)

SpecFn == InitFn /\ [][NextFn]_vars

(***************************************************************************)
(* Properties.                                                             *)
(***************************************************************************)
\* the datasets of the Air Sewa page in registry / keyword-table order
DatasetOrder == <<"aviation_grievance", "flight_schedule", "aviation_faqs", "airport_services">>

\* the positions in DatasetOrder of the datasets with a keyword inside the
\* lower-cased text
DatasetsHit(text) ==
    { n \in 1..Len(DatasetOrder) :
        \E k \in 1..Len(keywords_air_sewa[n][2]) :
           Contains(keywords_air_sewa[n][2][k], lower(text)) }

\* C1: classify_query (Air Sewa) returns the first dataset, in the order
\* aviation_grievance, flight_schedule, aviation_faqs, airport_services, that
\* has a keyword occurring in the lower-cased text: with one dataset hit it is
\* that dataset, with several the earliest of them.
C1_FirstDatasetInOrder ==
    (pc = "fn_classified" /\ page = "airsewa" /\ DatasetsHit(user_query) # {}) =>
        \E n \in DatasetsHit(user_query) :
           /\ \A m \in DatasetsHit(user_query) : n <= m
           /\ api_identifier = DatasetOrder[n]
           /\ keywords_air_sewa[n][1] = DatasetOrder[n]

\* C1 witness: a text with keywords of two datasets, classified as the earlier
C1_Witness ==
    /\ pc = "fn_classified" /\ page = "airsewa"
    /\ DatasetsHit(user_query) = {2, 3}
    /\ api_identifier = "flight_schedule"

\* no keyword of the page occurs in the lower-cased text
NoKeywordIn(pg, text) ==
    IF pg = "airsewa"
       THEN DatasetsHit(text) = {}
       ELSE \A k \in 1..Len(keywords_petroleum) : ~Contains(keywords_petroleum[k], lower(text))

\* C2: a non-blank query without any keyword ends with no dataset selected and
\* the assistance panel as the only thing shown; no extractor ran and no HTTP
\* request was issued for it.
C2_NoMatchShowsAssistance ==
    (caller = "main" /\ pc \notin {"idle", "classify"}
       /\ strip(user_query) # "" /\ NoKeywordIn(page, user_query)) =>
        /\ pc = "done"
        /\ api_identifier = None
        /\ shown = <<[widget |-> "info", text |-> MsgAssistance]>>
        /\ filters = EmptyFilters
        /\ params = EmptyFilters
        /\ http_log = <<>>
        /\ response = NoResponse

\* C2 witness: such a query has been handled
C2_Witness ==
    /\ caller = "main" /\ pc = "done"
    /\ user_query = "hello there"
    /\ shown = <<[widget |-> "info", text |-> MsgAssistance]>>
    /\ http_log = <<>>

\* C3 (as claimed): every field an extractor puts into the FilterSet, apart
\* from offset, limit and format, is one of the recognized filter fields of
\* the extractor's dataset.
C3_ExtractedFieldsRecognized ==
    pc = "fn_extracted" =>
        (DOMAIN filters) \ {"offset", "limit", "format"}
            \subseteq Range(API_INFO[api_identifier].filters)

\* C4: the request parameters built from an extractor's FilterSet are api-key,
\* format, offset, limit and filters[f] for recognized filter fields f of the
\* dataset only.
C4_ParamsOnlyRecognized ==
    pc = "fn_params" =>
        /\ {"api-key", "format", "offset", "limit"} \subseteq DOMAIN params
        /\ \A p \in DOMAIN params :
              \/ p \in {"api-key", "format", "offset", "limit"}
              \/ \E f \in Range(API_INFO[api_identifier].filters) :
                    p = "filters[" \o f \o "]" /\ f \in DOMAIN filters

\* C4 witness: the extractor produced a field the descriptor does not declare
\* (month), and the request carries the declared ones only
C4_Witness ==
    /\ pc = "fn_params"
    /\ "month" \in DOMAIN filters
    /\ "filters[month]" \notin DOMAIN params
    /\ "filters[year]" \in DOMAIN params

\* the offsets at which a `limit <digits>` token starts in the lower-cased
\* text: "limit", any whitespace, then a digit
LimitTokenStarts(q) ==
    { i \in 0..(Len(q) - 5) :
        /\ SubSeq(q, i + 1, i + 5) = "limit"
        /\ \E j \in (i + 5)..(Len(q) - 1) :
              /\ \A k \in (i + 6)..j : CharAt(q, k) = " "
              /\ CharAt(q, j + 1) \in DIGIT }

\* the integer written by the digits of the token that starts at offset i
LimitTokenValue(q, i) ==
    LET j == CHOOSE j \in (i + 5)..(Len(q) - 1) :
                /\ \A k \in (i + 6)..j : CharAt(q, k) = " "
                /\ CharAt(q, j + 1) \in DIGIT
        e == CHOOSE e \in (j + 1)..Len(q) :
                /\ \A k \in (j + 1)..e : CharAt(q, k) \in DIGIT
                /\ e = Len(q) \/ CharAt(q, e + 1) \notin DIGIT
    IN int(SubSeq(q, j + 1, e))

\* C5: every FilterSet of an extractor holds offset = 0 and a limit, both
\* non-negative integers; the limit is the dataset default (10 on the Air Sewa
\* page, 15 for petroleum) unless the text holds a `limit <digits>` token, and
\* then it is the integer of the (first) token.
C5_OffsetAndLimit ==
    pc = "fn_extracted" =>
        LET q == lower(user_query)
            starts == LimitTokenStarts(q)
        IN /\ {"offset", "limit"} \subseteq DOMAIN filters
           /\ filters["offset"] = 0
           /\ filters["limit"] \in Nat
           /\ IF starts = {}
                 THEN filters["limit"] = (IF page = "airsewa" THEN 10 ELSE 15)
                 ELSE \E i \in starts :
                         /\ \A i2 \in starts : i <= i2
                         /\ filters["limit"] = LimitTokenValue(q, i)

\* C5 witness: a text with a limit token, whose integer replaced the default
C5_Witness ==
    /\ pc = "fn_extracted"
    /\ LimitTokenStarts(lower(user_query)) # {}
    /\ filters["limit"] = 12
    /\ filters["offset"] = 0

\* the secret of the dispatched dataset is not in the credential store
CredentialAbsent ==
    \E i \in 1..Len(api_key_names(page)) :
       /\ api_key_names(page)[i][1] = api_identifier
       /\ api_key_names(page)[i][2] \notin DOMAIN secrets

\* C6 (as claimed): with the credential of the dispatched dataset absent from
\* the store, call_api returns an error result and attempts no HTTP request.
C6_AbsentCredentialReturnsError ==
    (pc \in {"returned", "raised"} /\ CredentialAbsent) =>
        /\ pc = "returned"
        /\ "error" \in DOMAIN result
        /\ http_log = <<>>

\* the dispatch of the current query failed in one of the four ways
DispatchFailure ==
    \/ CredentialAbsent
    \/ KeyMissing(IF MappingRaises(page, secrets) THEN None
                  ELSE api_key_of(page, secrets, api_identifier))
    \/ api_identifier \notin DOMAIN API_INFO
    \/ response.kind = "http" /\ response.status_code # 200
    \/ /\ response.kind = "http" /\ response.status_code = 200
       /\ IF format_type = "csv" THEN ~read_csv(response.text).ok
                                 ELSE ~json_records(response.text).ok

\* C7 (as claimed): every failure of the dispatch path ends as a result that
\* call_api returns, with the failure described in its message field, and the
\* page shows that message.
C7_FailuresEndAsMessage ==
    /\ (pc \in {"returned", "raised"} /\ DispatchFailure) =>
          /\ pc = "returned"
          /\ "message" \in DOMAIN result
          /\ result["message"] # ""
    /\ (pc = "done" /\ caller = "main" /\ api_identifier # None /\ DispatchFailure) =>
          /\ "message" \in DOMAIN result
          /\ \E i \in 1..Len(shown) : shown[i].text = result["message"]

\* C8 (as claimed): a result returned by call_api has either records and an
\* empty message, or no records and a non-empty message.
C8_RecordsXorMessage ==
    pc = "returned" =>
        LET records == IF "response_data" \in DOMAIN result THEN result["response_data"] ELSE <<>>
            message == IF "message" \in DOMAIN result THEN result["message"] ELSE ""
        IN \/ Len(records) > 0 /\ message = ""
           \/ Len(records) = 0 /\ message # ""

\* C9: at most one HTTP GET is issued for a query, whatever the response, and
\* a non-200 response gives a result without records whose message holds the
\* status code.
C9_OneGetNoRetry ==
    /\ Len(http_log) <= 1
    /\ (pc \in {"returned", "done"} /\ response.kind = "http"
          /\ response.status_code # 200) =>
          /\ Len(http_log) = 1
          /\ Len(result["response_data"]) = 0
          /\ Contains(ToString(response.status_code), result["message"])

\* C9 witness: call_api has returned for a 404 response
C9_Witness ==
    /\ pc = "returned"
    /\ response.kind = "http" /\ response.status_code = 404
    /\ Len(http_log) = 1
    /\ result["message"] = "Request failed with status code 404."

\* a 200 response whose result set is empty: a header-only delimited body, or
\* a JSON object whose records array is absent or empty
EmptyResultSet ==
    /\ response.kind = "http" /\ response.status_code = 200
    /\ IF format_type = "csv"
          THEN Len(response.text.lines) = 1
          ELSE \/ response.text.json = "object_without_records"
               \/ response.text.json = "object" /\ Len(response.text.records) = 0

\* C10: a 200 response with an empty result set gives no records and exactly
\* the message "No data found for the given filters."; no transport failure
\* and no parse failure gives that message.
C10_EmptyResultMessage ==
    pc = "returned" /\ response.kind = "http" =>
        /\ EmptyResultSet =>
              /\ Len(result["response_data"]) = 0
              /\ result["message"] = "No data found for the given filters."
        /\ DispatchFailure => result["message"] # "No data found for the given filters."

\* C10 witness: a JSON object without a records key
C10_Witness ==
    /\ pc = "returned"
    /\ format_type = "json"
    /\ response.status_code = 200
    /\ response.text.json = "object_without_records"
    /\ result["message"] = "No data found for the given filters."

\* the three things main() can display for a submitted query
ShowsTable ==
    shown = <<Widget("success", "Data retrieved successfully!"),
              Widget("dataframe", ""),
              Widget("download_button", "Download Data as CSV")>>

ShowsAssistance == shown = <<Widget("info", MsgAssistance)>>

ShowsOneMessage ==
    /\ Len(shown) = 1
    /\ shown[1].widget \in {"warning", "error", "info"}
    /\ shown[1].text # ""
    /\ shown[1].text # MsgAssistance

\* C11 (as claimed): once a submitted query has been handled, the page shows
\* exactly one of the table with its download button, the assistance panel,
\* or one non-empty warning/error message.
C11_ExactlyOneOutcome ==
    (pc = "done" /\ caller = "main") =>
        \/ ShowsTable /\ ~ShowsAssistance /\ ~ShowsOneMessage
        \/ ~ShowsTable /\ ShowsAssistance /\ ~ShowsOneMessage
        \/ ~ShowsTable /\ ~ShowsAssistance /\ ShowsOneMessage

FlightExample ==
    "What is the flight schedule for IndiGo flight number 451 from Bengaluru to Lucknow?"

\* C12 (as claimed): the flight example is classified as flight_schedule and
\* its FilterSet holds airline "Indigo", flightNumber "451", origin
\* "Bengaluru", destination "Lucknow", limit 10, offset 0; and whenever the
\* flight extractor fills origin or destination, the value is one place name
\* (a single word).
C12_FlightExampleFilters ==
    /\ (caller = "main" /\ user_query = FlightExample /\ pc \in {"call_api", "http", "returned"}) =>
          /\ api_identifier = "flight_schedule"
          /\ {"airline", "flightNumber", "origin", "destination"} \subseteq DOMAIN filters
          /\ filters["airline"] = "Indigo"
          /\ filters["flightNumber"] = "451"
          /\ filters["origin"] = "Bengaluru"
          /\ filters["destination"] = "Lucknow"
          /\ filters["limit"] = 10
          /\ filters["offset"] = 0
    /\ (api_identifier = "flight_schedule" /\ "origin" \in DOMAIN filters) =>
          ~Contains(" ", filters["origin"])
    /\ (api_identifier = "flight_schedule" /\ "destination" \in DOMAIN filters) =>
          ~Contains(" ", filters["destination"])

\* what a query leaves behind depends on nothing but the page, the credential
\* store, the text, the arguments of call_api and the HTTP response
OutcomeIsFunctionOfInputs ==
    /\ pc = "idle" => Locals
    /\ (caller = "main" /\ pc \notin {"idle", "classify"} /\ strip(user_query) # "") =>
          api_identifier = classify_query(page, user_query)
    /\ (filters # EmptyFilters \/ pc \in {"call_api", "http", "returned", "raised"}) =>
          filters = parse_filters(page, api_identifier, user_query)
    /\ http_log # <<>> =>
          /\ params = BuildParams(page, API_INFO[api_identifier],
                                  api_key_of(page, secrets, api_identifier),
                                  filters, format_type)
          /\ http_log = <<[url |-> API_INFO[api_identifier].endpoint, params |-> params]>>
    /\ response.kind = "http" => result = Normalize(filters, format_type, response)
    /\ (pc = "done" /\ caller = "main" /\ result # NoResult) => shown = RenderResult(result)

\* C13: the dataset registry is the fixed table at every moment (no operation
\* modifies it), and in every run of the
\* page, whatever queries were handled in the runs before it, the selected
\* dataset, the FilterSet, the request parameters and the result are those the
\* classifier, the extractor, the parameter building and the normalisation
\* give for this text and this HTTP response; a run starts with no value left
\* over from the run before.
C13_NoStateAcrossQueries ==
    /\ API_INFO = Registry(page)
    /\ OutcomeIsFunctionOfInputs

\* C13 witness: call_api has returned records for a query handled after
\* another query
C13_Witness ==
    /\ runs = MaxRuns
    /\ caller = "main" /\ pc = "returned"
    /\ filters # EmptyFilters
    /\ "response_data" \in DOMAIN result
    /\ Len(result["response_data"]) > 0

\* the fields an extractor fills from an enumerated vocabulary list, each with
\* its list
VocabularyFields(d) ==
    CASE d = "flight_schedule" -> {<<"airline", airlines>>, <<"daysOfWeek", days>>}
      [] d = "aviation_faqs" -> {<<"category", categories>>}
      [] d = "airport_services" -> {<<"airport", airports>>,
                                    <<"categoryenglish", categories_eng>>,
                                    <<"categoryHindi", categories_hin>>}
      [] d = "consumption_petroleum" -> {<<"month", months>>, <<"products", possible_products>>}
      [] OTHER -> {}

\* the positions of the vocabulary entries that occur in the text
EntriesIn(vocabulary, text) ==
    { i \in 1..Len(vocabulary) : Contains(lower(vocabulary[i]), lower(text)) }

\* C14 (as claimed): a vocabulary-scanned field is set exactly when an entry
\* of its list occurs in the text, and then holds one entry: the first in list
\* order that occurs.
C14_FirstVocabularyEntryOnly ==
    pc = "fn_extracted" =>
        \A kv \in VocabularyFields(api_identifier) :
           LET hits == EntriesIn(kv[2], user_query) IN
           IF hits = {}
              THEN kv[1] \notin DOMAIN filters
              ELSE /\ kv[1] \in DOMAIN filters
                   /\ \E i \in hits : /\ \A j \in hits : i <= j
                                      /\ filters[kv[1]] = kv[2][i]

\* C15 (as claimed): whatever format_type the caller passes, the request that
\* call_api sends for an extractor's FilterSet carries format = "csv", and a
\* 200 body is parsed as delimited text.
C15_FormatForcedToCsv ==
    /\ (http_log # <<>> /\ filters # EmptyFilters) =>
          /\ filters["format"] = "csv"
          /\ \A i \in 1..Len(http_log) : http_log[i].params["format"] = "csv"
    /\ (pc = "returned" /\ filters # EmptyFilters /\ response.kind = "http") =>
          result = Normalize(filters, "csv", response)

\* the secret of the dispatched dataset is in the credential store, with a
\* non-empty value
CredentialPresent ==
    \E i \in 1..Len(api_key_names(page)) :
       /\ api_key_names(page)[i][1] = api_identifier
       /\ api_key_names(page)[i][2] \in DOMAIN secrets
       /\ secrets[api_key_names(page)[i][2]] # ""

\* C16 (as claimed): when the credential of the dispatched dataset is present,
\* call_api gets to the HTTP request, whether or not the secrets of the other
\* datasets are in the store.
C16_CredentialPerDataset ==
    (pc \in {"http", "returned", "raised"} /\ CredentialPresent
       /\ api_identifier \in DOMAIN API_INFO) =>
        /\ Len(http_log) = 1
        /\ raised # "KeyError"

\* the steps of one Search click, as pairs of positions: blank check, then
\* classifier, then extractor, then call_api, then the GET, then the result
SearchOrder ==
    {<<"idle", "classify">>, <<"idle", "done">>,
     <<"classify", "extract">>, <<"classify", "done">>,
     <<"extract", "call_api">>,
     <<"call_api", "http">>, <<"call_api", "returned">>, <<"call_api", "raised">>,
     <<"http", "returned">>, <<"http", "raised">>,
     <<"returned", "done">>, <<"raised", "done">>}

\* what holds of a Search click at every moment: a blank text got no further
\* than the blank check, and a request on the wire had all its steps before it
SearchStepsDone ==
    caller = "main" =>
       /\ strip(user_query) = "" =>
             /\ pc = "done"
             /\ api_identifier = None /\ filters = EmptyFilters
             /\ http_log = <<>>
             /\ shown = <<Widget("warning", MsgEnterQuery)>>
       /\ http_log # <<>> =>
             /\ strip(user_query) # ""
             /\ api_identifier # None
             /\ api_identifier = classify_query(page, user_query)
             /\ filters = parse_filters(page, api_identifier, user_query)
             /\ ~MappingRaises(page, secrets)
             /\ ~KeyMissing(api_key_of(page, secrets, api_identifier))
             /\ api_identifier \in DOMAIN API_INFO
             /\ http_log[1].url = API_INFO[api_identifier].endpoint
             /\ http_log[1].params["api-key"] = api_key_of(page, secrets, api_identifier)

\* one step of a Search click: positions follow SearchOrder, and the request
\* goes out in the step that leaves call_api and in no other
SearchStep ==
    (caller' = "main" /\ pc' # pc) =>
       /\ <<pc, pc'>> \in SearchOrder
       /\ (http_log' # http_log) <=> (pc = "call_api" /\ pc' = "http")
       /\ (filters' # filters) => (pc = "extract" /\ http_log = <<>>)
       /\ (api_identifier' # api_identifier) => (pc = "classify" /\ filters = EmptyFilters)

\* C17: within one Search click the steps come in a fixed order (blank check,
\* classifier, extractor, credential and descriptor lookup) and the HTTP GET
\* comes after all of them; a blank or whitespace-only text reaches neither
\* the classifier nor the network.
C17_StepsInOrder == []SearchStepsDone /\ [][SearchStep]_vars

\* C17 witness: the request of a Search click is on the wire
C17_Witness ==
    /\ caller = "main" /\ pc = "http"
    /\ Len(http_log) = 1
    /\ api_identifier # None
    /\ filters # EmptyFilters

====
